---- MODULE Spec2Model ----
(***************************************************************************)
(* The draggable-label overlay of Plot_volcano.py: the significance        *)
(* classification of the input rows, the loop that creates one text label  *)
(* and one connector line per significant row, and the three mouse         *)
(* handlers of class DraggableAnnotations.                                 *)
(*                                                                         *)
(* Coordinates are integers.  The horizontal axis (log2FoldChange) is in   *)
(* units of 1.0; the vertical axis (-log10(padj)) is in units of 0.5, so   *)
(* the script's "+ 0.5" label offset is one vertical unit.                 *)
(***************************************************************************)
EXTENDS Integers, Sequences, FiniteSets

VARIABLES
    data,         \* the data frame after dropna and categorisation (rows in order)
    texts,        \* list `texts`: the label Text artists
    connectors,   \* list `connectors`: the connector Line2D artists
    row_i,        \* position of the creation loop in data.iterrows()
    pc,           \* "loop" -> "activate" -> "show"
    data_points,  \* DraggableAnnotations.data_points
    pressed,      \* DraggableAnnotations.pressed
    event,        \* the mouse event last dispatched by the canvas
    redraw        \* whether the last handler called fig.canvas.draw()

vars == <<data, texts, connectors, row_i, pc, data_points, pressed, event, redraw>>

----------------------------------------------------------------------------
(* Bounds of the model *)

MaxRows == 2

(* Python's None, and an optional value that is present *)
None == <<>>
Some(v) == <<v>>

----------------------------------------------------------------------------
(* Significance classification, Plot_volcano.py lines 27-34 *)

\* logfc_cutoff = 1.0, in horizontal units of 1.0
logfc_cutoff == 1

\* padj < pval_cutoff (0.05) iff -log10(padj) > 1.30103, i.e. iff the value in
\* vertical units of 0.5 exceeds 2 (2 is 1.0 < 1.30103, 3 is 1.5 > 1.30103)
pval_cutoff == 2

\* the (log2FoldChange, -log10(P_adj)) pairs the input rows are drawn from:
\* a downregulated row, an upregulated row, a row on the fold-change cutoff
\* and a row whose padj is too large
RowValues ==
    { [log2FoldChange |-> -2, neglog10 |-> 3],
      [log2FoldChange |->  2, neglog10 |-> 3],
      [log2FoldChange |->  1, neglog10 |-> 3],
      [log2FoldChange |->  2, neglog10 |-> 2] }

Significance(row) ==
    IF row.neglog10 > pval_cutoff /\ row.log2FoldChange < -logfc_cutoff
    THEN "Downregulated"
    ELSE IF row.neglog10 > pval_cutoff /\ row.log2FoldChange > logfc_cutoff
    THEN "Upregulated"
    ELSE "Not Significant"

Categorize(rows) ==
    [k \in 1..Len(rows) |->
        [log2FoldChange |-> rows[k].log2FoldChange,
         neglog10       |-> rows[k].neglog10,
         Significance   |-> Significance(rows[k])]]

RowSeqs == UNION { [1..n -> RowValues] : n \in 0..MaxRows }

----------------------------------------------------------------------------
(* The rendering surface: canvas pixels, axes, text extents *)

\* data -> pixel transform of the axes (ax.transData) and its inverse
transData(p) == <<p[1] + 3, p[2] - 2>>
transDataInv(q) == <<q[1] - 3, q[2] + 2>>

\* pixel positions at which the pointer is sampled
PointerXs == {1, 5, 6}
PointerYs == {1, 2, 3}

\* the pixels covered by the axes; the pointer columns and rows beyond them
\* are on the figure but outside the axes
AxesXs == 1..5
AxesYs == 0..2

inaxes(x, y) == x \in AxesXs /\ y \in AxesYs

\* a canvas MouseEvent: x, y are pixels and always present; xdata, ydata are
\* data coordinates, None when the pointer is outside the axes
MouseEvent(name, x, y) ==
    [name  |-> name, x |-> x, y |-> y,
     xdata |-> IF inaxes(x, y) THEN Some(transDataInv(<<x, y>>)[1]) ELSE None,
     ydata |-> IF inaxes(x, y) THEN Some(transDataInv(<<x, y>>)[2]) ELSE None]

NoEvent == [name |-> "none", x |-> 0, y |-> 0, xdata |-> None, ydata |-> None]

\* rendered width of a label in pixels (labels are one pixel row tall)
TextWidth == 1

\* window extent of a Text: anchored at its position, extending right of it
\* for ha = 'left' and left of it for ha = 'right'; va = 'center'
get_window_extent(text) ==
    LET q == transData(text.position)
    IN  [x0 |-> IF text.ha = "left" THEN q[1] ELSE q[1] - TextWidth,
         x1 |-> IF text.ha = "left" THEN q[1] + TextWidth ELSE q[1],
         y0 |-> q[2],
         y1 |-> q[2]]

\* Text.contains(event): the pointer pixel is inside the window extent
contains(text, ev) ==
    LET bbox == get_window_extent(text)
    IN  /\ bbox.x0 <= ev.x /\ ev.x <= bbox.x1
        /\ bbox.y0 <= ev.y /\ ev.y <= bbox.y1

----------------------------------------------------------------------------
(* Creation of labels and connectors, Plot_volcano.py lines 70-89 *)

\* the "+ 0.5" of lines 80 and 85, in vertical units of 0.5
LabelOffset == 1

ax_text(row, idx) ==
    [position |-> <<row.log2FoldChange, row.neglog10 + LabelOffset>>,
     text     |-> idx,
     ha       |-> IF row.log2FoldChange < 0 THEN "right" ELSE "left",
     color    |-> IF row.Significance = "Upregulated" THEN "darkred" ELSE "darkblue"]

ax_plot(row) ==
    [xdata |-> <<row.log2FoldChange, row.log2FoldChange>>,
     ydata |-> <<row.neglog10, row.neglog10 + LabelOffset>>]

\* variant: only upregulated rows get a label
IsLabelled_up_only(row) == row.Significance = "Upregulated"

IsLabelled(row) == row.Significance \in {"Upregulated", "Downregulated"}

Init ==
    /\ data \in { Categorize(rows) : rows \in RowSeqs }
    /\ texts = <<>>
    /\ connectors = <<>>
    /\ row_i = 1
    /\ pc = "loop"
    /\ data_points = <<>>
    /\ pressed = None
    /\ event = NoEvent
    /\ redraw = FALSE

\* one iteration of `for idx, row in data.iterrows()`
LoopBody ==
    /\ pc = "loop"
    /\ row_i <= Len(data)
    /\ IF IsLabelled(data[row_i])
       THEN /\ texts' = Append(texts, ax_text(data[row_i], row_i))
            /\ connectors' = Append(connectors, ax_plot(data[row_i]))
       ELSE UNCHANGED <<texts, connectors>>
    /\ row_i' = row_i + 1
    /\ UNCHANGED <<data, pc, data_points, pressed, event, redraw>>

LoopExit ==
    /\ pc = "loop"
    /\ row_i > Len(data)
    /\ pc' = "activate"
    /\ UNCHANGED <<data, texts, connectors, row_i, data_points, pressed, event, redraw>>

----------------------------------------------------------------------------
(* class DraggableAnnotations, Plot_volcano.py lines 92-130 *)

\* list(zip(data["log2FoldChange"], data["-log10(P_adj)"])), line 129
zip_data_points(d) ==
    [k \in 1..Len(d) |-> <<d[k].log2FoldChange, d[k].neglog10>>]

\* lines 129-130: build data_points, construct the overlay, connect handlers
Activate ==
    /\ pc = "activate"
    /\ data_points' = zip_data_points(data)
    /\ pressed' = None
    /\ pc' = "show"
    /\ UNCHANGED <<data, texts, connectors, row_i, event, redraw>>

\* the overlay object as a record of its fields plus the draw request
Self ==
    [texts |-> texts, connectors |-> connectors, data_points |-> data_points,
     pressed |-> pressed, redraw |-> redraw]

\* variant: no break, the last label containing the event wins
RECURSIVE press_loop_no_break(_, _, _)
press_loop_no_break(self, ev, i) ==
    IF i >= Len(self.texts) THEN self.pressed
    ELSE press_loop_no_break(
             IF contains(self.texts[i + 1], ev)
             THEN [self EXCEPT !.pressed = Some(i)] ELSE self,
             ev, i + 1)

\* variant: pressed is assigned before the containment test, so a press
\* that hits nothing leaves the last index recorded
RECURSIVE press_loop_assign_first(_, _, _)
press_loop_assign_first(self, ev, i) ==
    IF i >= Len(self.texts) THEN self.pressed
    ELSE IF contains(self.texts[i + 1], ev) THEN Some(i)
    ELSE press_loop_assign_first([self EXCEPT !.pressed = Some(i)], ev, i + 1)

\* variant: the hit is recorded with a 1-based index
RECURSIVE press_loop_one_based(_, _, _)
press_loop_one_based(self, ev, i) ==
    IF i >= Len(self.texts) THEN self.pressed
    ELSE IF contains(self.texts[i + 1], ev) THEN Some(i + 1)
    ELSE press_loop_one_based(self, ev, i + 1)

\* the loop of on_press from index i (0-based) on: first label containing
\* the event is recorded and the loop breaks; no hit leaves pressed as it was
RECURSIVE press_loop(_, _, _)
press_loop(self, ev, i) ==
    IF i >= Len(self.texts) THEN self.pressed
    ELSE IF contains(self.texts[i + 1], ev) THEN Some(i)
    ELSE press_loop(self, ev, i + 1)

on_press(self, ev) ==
    [self EXCEPT !.pressed = press_loop(self, ev, 0), !.redraw = FALSE]

\* variant: the drag ends only when the button is released inside the axes
on_release_inside_only(self, ev) ==
    IF ev.xdata # None /\ ev.ydata # None
    THEN [self EXCEPT !.pressed = None, !.redraw = TRUE]
    ELSE [self EXCEPT !.redraw = TRUE]

on_release(self, ev) ==
    [self EXCEPT !.pressed = None, !.redraw = TRUE]

\* variant: the first label is moved whichever label is pressed
on_motion_first_label(self, ev) ==
    IF self.pressed # None /\ ev.xdata # None /\ ev.ydata # None
    THEN LET orig == self.data_points[1]
         IN  [self EXCEPT
                !.texts[1].position = <<ev.xdata[1], ev.ydata[1]>>,
                !.connectors[1].xdata = <<orig[1], ev.xdata[1]>>,
                !.connectors[1].ydata = <<orig[2], ev.ydata[1]>>,
                !.redraw = TRUE]
    ELSE [self EXCEPT !.redraw = FALSE]

\* variant: the canvas is redrawn on every motion event
on_motion_always_draws(self, ev) ==
    IF self.pressed # None /\ ev.xdata # None /\ ev.ydata # None
    THEN LET p    == self.pressed[1] + 1
             orig == self.data_points[p]
         IN  [self EXCEPT
                !.texts[p].position = <<ev.xdata[1], ev.ydata[1]>>,
                !.connectors[p].xdata = <<orig[1], ev.xdata[1]>>,
                !.connectors[p].ydata = <<orig[2], ev.ydata[1]>>,
                !.redraw = TRUE]
    ELSE [self EXCEPT !.redraw = TRUE]

\* variant: the drag is dropped when the pointer leaves the axes
on_motion_drops_outside(self, ev) ==
    IF self.pressed # None /\ ev.xdata # None /\ ev.ydata # None
    THEN LET p    == self.pressed[1] + 1
             orig == self.data_points[p]
         IN  [self EXCEPT
                !.texts[p].position = <<ev.xdata[1], ev.ydata[1]>>,
                !.connectors[p].xdata = <<orig[1], ev.xdata[1]>>,
                !.connectors[p].ydata = <<orig[2], ev.ydata[1]>>,
                !.redraw = TRUE]
    ELSE [self EXCEPT !.pressed = None, !.redraw = FALSE]

on_motion(self, ev) ==
    IF self.pressed # None /\ ev.xdata # None /\ ev.ydata # None
    THEN LET p    == self.pressed[1] + 1
             orig == self.data_points[p]
         IN  [self EXCEPT
                !.texts[p].position = <<ev.xdata[1], ev.ydata[1]>>,
                !.connectors[p].xdata = <<orig[1], ev.xdata[1]>>,
                !.connectors[p].ydata = <<orig[2], ev.ydata[1]>>,
                !.redraw = TRUE]
    ELSE [self EXCEPT !.redraw = FALSE]

\* the canvas dispatches ev to a handler while the window is shown; result is
\* the overlay as the handler leaves it
Dispatch(ev, result) ==
    /\ event' = ev
    /\ texts' = result.texts
    /\ connectors' = result.connectors
    /\ data_points' = result.data_points
    /\ pressed' = result.pressed
    /\ redraw' = result.redraw
    /\ UNCHANGED <<data, row_i, pc>>

\* The canvas reports a press or release at whatever pixel the pointer is on;
\* no motion event need precede it at that pixel (several buttons, touch
\* input, a pointer that entered the window between two samples).
ButtonPress ==
    /\ pc = "show"
    /\ \E x \in PointerXs, y \in PointerYs :
          LET ev == MouseEvent("button_press_event", x, y)
          IN  Dispatch(ev, on_press(Self, ev))

ButtonRelease ==
    /\ pc = "show"
    /\ \E x \in PointerXs, y \in PointerYs :
          LET ev == MouseEvent("button_release_event", x, y)
          IN  Dispatch(ev, on_release(Self, ev))

MotionNotify ==
    /\ pc = "show"
    /\ \E x \in PointerXs, y \in PointerYs :
          LET ev == MouseEvent("motion_notify_event", x, y)
          IN  Dispatch(ev, on_motion(Self, ev))

Next ==
    \/ LoopBody
    \/ LoopExit
    \/ Activate
    \/ ButtonPress
    \/ ButtonRelease
    \/ MotionNotify

Spec == Init /\ [][Next]_vars

----------------------------------------------------------------------------
(* Vocabulary of the properties *)

\* the rows classified Upregulated or Downregulated, in input order
SignificantRows ==
    SelectSeq(data, LAMBDA r : r.Significance = "Upregulated"
                               \/ r.Significance = "Downregulated")

\* anchor of annotation i (1-based): the data point label i was created for
anchor(i) == <<SignificantRows[i].log2FoldChange, SignificantRows[i].neglog10>>

label_position(i) == texts[i].position
connector_start(c) == <<c.xdata[1], c.ydata[1]>>
connector_end(c) == <<c.xdata[2], c.ydata[2]>>

\* where label i is put at creation: its anchor, one vertical unit (0.5) up
initial_position(i) == <<anchor(i)[1], anchor(i)[2] + 1>>

IDLE == pressed = None
DRAGGING == pressed # None

IsMove(ev) == ev.name = "motion_notify_event"
IsDown(ev) == ev.name = "button_press_event"
IsUp(ev) == ev.name = "button_release_event"
HasCoordinates(ev) == ev.xdata # None /\ ev.ydata # None

\* the 0-based indices of the labels whose bbox contains the event
Hits(ev) == { i \in 0..(Len(texts) - 1) : contains(texts[i + 1], ev) }
FirstHit(ev) == CHOOSE i \in Hits(ev) : \A j \in Hits(ev) : i <= j

----------------------------------------------------------------------------
(* C1: after creation, under any sequence of pointer events, every         *)
(* connector starts at the anchor of its annotation (the i-th significant  *)
(* row) and ends at the annotation's current label position.               *)
C1_ConnectorEndpoints ==
    pc = "show" =>
        \A i \in 1..Len(texts) :
            /\ connector_start(connectors[i]) = anchor(i)
            /\ connector_end(connectors[i]) = label_position(i)

(* C2: the stored anchors (data_points) never change after creation, and   *)
(* a drag mutates nothing of an annotation but its label position and the  *)
(* end point of its connector.                                             *)
C2_AnchorWriteOnce ==
    [][pc = "show" =>
          /\ data_points' = data_points
          /\ \A i \in 1..Len(texts) :
                /\ connector_start(connectors'[i]) = connector_start(connectors[i])
                /\ texts'[i].text = texts[i].text
                /\ texts'[i].ha = texts[i].ha
                /\ texts'[i].color = texts[i].color]_vars

(* C3: a move event with valid data coordinates while DRAGGING at index i  *)
(* puts label i at the event's coordinate, leaves every other label and    *)
(* connector as it was, and leaves active_index at i.                      *)
C3_MoveFrame ==
    [][(IsMove(event') /\ DRAGGING /\ HasCoordinates(event')) =>
          /\ label_position(pressed[1] + 1)' = <<event'.xdata[1], event'.ydata[1]>>
          /\ \A j \in 1..Len(texts) :
                j # pressed[1] + 1 =>
                    texts'[j] = texts[j] /\ connectors'[j] = connectors[j]
          /\ Len(texts') = Len(texts)
          /\ Len(connectors') = Len(connectors)
          /\ pressed' = pressed]_vars

\* a second label is being dragged and sits where the pointer is, while the
\* first label is still where it was created
C3_Witness ==
    /\ IsMove(event) /\ HasCoordinates(event)
    /\ pressed = Some(1)
    /\ label_position(2) = <<event.xdata[1], event.ydata[1]>>
    /\ label_position(2) # initial_position(2)
    /\ label_position(1) = initial_position(1)

(* C4: a press inside at least one label bbox makes the earliest-created   *)
(* label containing it the active one (hence the only containing label     *)
(* when there is exactly one); a press moves no label and no connector.    *)
C4_PressFirstHit ==
    [][IsDown(event') =>
          /\ Hits(event') # {} => pressed' = Some(FirstHit(event'))
          /\ (\E i \in Hits(event') : Hits(event') = {i}) =>
                 pressed' = Some(CHOOSE i \in Hits(event') : TRUE)
          /\ texts' = texts
          /\ connectors' = connectors]_vars

\* a press on two overlapping labels has recorded the first of them
C4_Witness ==
    /\ IsDown(event)
    /\ Hits(event) = {0, 1}
    /\ pressed = Some(0)

(* C5: after a release the overlay is IDLE whatever it was before, a       *)
(* second release leaves the state of the first, and a release changes no  *)
(* label position, connector or anchor.                                    *)
C5_ReleaseIdle ==
    [][IsUp(event') =>
          /\ IDLE'
          /\ \A x \in PointerXs, y \in PointerYs :
                on_release(Self', MouseEvent("button_release_event", x, y)) = Self'
          /\ texts' = texts
          /\ connectors' = connectors
          /\ data_points' = data_points]_vars

\* a release after a label has been dragged away from its initial position
C5_Witness ==
    /\ IsUp(event)
    /\ IDLE
    /\ \E i \in 1..Len(texts) : label_position(i) # initial_position(i)

(* C6: a move event while IDLE, or one without valid data coordinates,     *)
(* changes no label, connector or active_index and requests no redraw; a   *)
(* dragged label so stays where the last valid move put it.                *)
C6_MoveNoOp ==
    [][(IsMove(event') /\ (IDLE \/ ~HasCoordinates(event'))) =>
          /\ texts' = texts
          /\ connectors' = connectors
          /\ pressed' = pressed
          /\ data_points' = data_points
          /\ redraw' = FALSE]_vars

\* the pointer has left the axes during a drag: the active label is where an
\* earlier valid move put it, and nothing was redrawn
C6_Witness ==
    /\ IsMove(event) /\ ~HasCoordinates(event)
    /\ DRAGGING
    /\ label_position(pressed[1] + 1) # initial_position(pressed[1] + 1)
    /\ redraw = FALSE

(* C7: while IDLE, a press inside no label bbox leaves the overlay IDLE,   *)
(* and every move while IDLE (so every move before a press that hits)      *)
(* changes nothing.                                                        *)
C7_MissStaysIdle ==
    [][/\ (IDLE /\ IsDown(event') /\ Hits(event') = {}) =>
              IDLE' /\ texts' = texts /\ connectors' = connectors
       /\ (IDLE /\ IsMove(event')) =>
              IDLE' /\ texts' = texts /\ connectors' = connectors]_vars

\* a press that missed every one of the existing labels, overlay still IDLE
C7_Witness ==
    /\ IsDown(event)
    /\ Len(texts) >= 1
    /\ Hits(event) = {}
    /\ IDLE

(* C8: active_index is none or one index i with 0 <= i < n, n being the    *)
(* number of annotations created before interaction, which never changes   *)
(* afterwards; every list on_motion indexes with it is long enough.        *)
C8_ActiveInBounds ==
    /\ pressed = None \/ (Len(pressed) = 1 /\ pressed[1] \in 0..(Len(texts) - 1))
    /\ pc = "show" =>
          /\ Len(texts) = Len(SignificantRows)
          /\ Len(connectors) = Len(texts)
          /\ Len(data_points) >= Len(texts)
    /\ Len(texts) = 0 => pressed = None

\* the last of two annotations is the active one
C8_Witness ==
    /\ Len(texts) = 2
    /\ pressed = Some(1)

(* C9 as stated: active_index changes only from none to an index by a      *)
(* press that hits, and from an index to none by a release; an active      *)
(* index i never becomes j # i without a release in between.               *)
C9_ListedStateMachine ==
    [][pressed' # pressed =>
          \/ IDLE /\ DRAGGING' /\ IsDown(event') /\ Hits(event') # {}
          \/ DRAGGING /\ IDLE' /\ IsUp(event')]_vars

(* C9 amended: active_index changes only by a press that hits, which sets  *)
(* it to the first hit index whether the overlay was IDLE or DRAGGING, and *)
(* by a release, which sets it to none; a move and a press that misses     *)
(* never change it.                                                        *)
C9_PressOrReleaseOnly ==
    [][pressed' # pressed =>
          \/ IsDown(event') /\ Hits(event') # {} /\ pressed' = Some(FirstHit(event'))
          \/ DRAGGING /\ IDLE' /\ IsUp(event')]_vars

\* a press during a drag: the second label, already dragged away from its
\* initial position, is active right after a press event
C9_Witness ==
    /\ IsDown(event)
    /\ pressed = Some(1)
    /\ label_position(2) # initial_position(2)
    /\ Hits(event) = {1}

(* C10: right after creation and before any pointer event the overlay is   *)
(* IDLE, there is one annotation per row classified Upregulated or         *)
(* Downregulated, in row order, each label is at its anchor raised by 0.5  *)
(* (one vertical unit) and each connector runs from the anchor to it.      *)
C10_InitialLayout ==
    (pc = "show" /\ event = NoEvent) =>
        /\ IDLE
        /\ Len(texts) = Len(SignificantRows)
        /\ Len(connectors) = Len(SignificantRows)
        /\ \A i \in 1..Len(SignificantRows) :
              /\ label_position(i) = <<anchor(i)[1], anchor(i)[2] + 1>>
              /\ connector_start(connectors[i]) = anchor(i)
              /\ connector_end(connectors[i]) = label_position(i)

\* created from a non-significant row followed by a significant one
C10_Witness ==
    /\ pc = "show" /\ event = NoEvent
    /\ Len(data) = 2
    /\ data[1].Significance = "Not Significant"
    /\ Len(texts) = 1

====
